---- MODULE Spec2Model ----
(***************************************************************************)
(* Model of the MoltBook personalization engine                            *)
(* (src/feature_04_personalization_engine.py): the PersonalizationEngine   *)
(* class and the `rate` command of main().                                 *)
(*                                                                         *)
(* Representation of Python values                                         *)
(*   dict            function; a missing key is a missing DOMAIN element,  *)
(*                   so d.get(k, default) is Get(d, k, default)            *)
(*   list            sequence                                              *)
(*   optional value  <<>> for None, <<v>> for the value v                  *)
(*   average_rating  tenths (46 is 4.6)                                    *)
(*   peer_data       the user_data of a second engine constructed for the  *)
(*                   same user id, <<>> while there is none                *)
(*   datetime        an integer count of half days; an ISO string is a     *)
(*                   record [kind, t] naming what fromisoformat makes of it*)
(***************************************************************************)
EXTENDS Integers, Sequences, FiniteSets, TLC

VARIABLES user_data, user_file, catalog, now, result, peer_data

vars == <<user_data, user_file, catalog, now, result, peer_data>>

----------------------------------------------------------------------------
(* Bounds of the model *)

MaxHistory == 2
MaxN == 2
MaxNow == 2

----------------------------------------------------------------------------
(* Generic helpers for Python built-ins *)

\* dict.get(key, default)
Get(d, key, default) == IF key \in DOMAIN d THEN d[key] ELSE default

\* x in list
InList(x, s) == \E i \in 1..Len(s) : s[i] = x

\* set(list)
ToSet(s) == {s[i] : i \in 1..Len(s)}

\* list[:n] for n >= 0
Take(s, n) == IF n >= Len(s) THEN s ELSE SubSeq(s, 1, n)

\* d[key] = value on a dict
DictSet(d, key, value) ==
    [k \in (DOMAIN d) \cup {key} |-> IF k = key THEN value ELSE d[k]]

\* Python truth value of an optional integer (None and 0 are false)
TruthyInt(x) == x # <<>> /\ x[1] # 0

\* Python truth value of an optional string (None and "" are false)
TruthyStr(x) == x # <<>> /\ x[1] # ""

----------------------------------------------------------------------------
(* The profile document *)

ListCategories == {"genres", "authors", "themes", "format_preference"}

\* the dict literal returned by _load_user_data when no file exists
DefaultUserData(t) ==
    [preferences |-> [genres |-> <<>>,
                      authors |-> <<>>,
                      themes |-> <<>>,
                      reading_level |-> "general",
                      format_preference |-> <<"digital", "audio">>],
     history |-> <<>>,
     ratings |-> <<>>,
     bookmarks |-> <<>>,
     created_at |-> t]

\* JSON values: what json.dumps writes for None, an int, a str, a list and
\* a dict (whose keys are strings here; the members keep their keys)
JsonNull == [json |-> "null"]
JsonNumber(n) == [json |-> "number", v |-> n]
JsonString(x) == [json |-> "string", v |-> x]
JsonArray(items) == [json |-> "array", items |-> items]
JsonObject(members) == [json |-> "object", members |-> members]

\* a list of strings
DumpStrings(s) == JsonArray([i \in 1..Len(s) |-> JsonString(s[i])])
LoadStrings(j) == [i \in 1..Len(j.items) |-> j.items[i].v]

\* the preferences dict: lists of strings and the reading_level string
DumpPreferences(prefs) ==
    JsonObject([k \in DOMAIN prefs |->
                   IF k \in ListCategories THEN DumpStrings(prefs[k])
                   ELSE JsonString(prefs[k])])
LoadPreferences(j) ==
    [k \in DOMAIN j.members |->
        IF j.members[k].json = "array" THEN LoadStrings(j.members[k])
        ELSE j.members[k].v]

\* an interaction dict; its rating is None or an int
DumpInteraction(h) ==
    JsonObject([k \in DOMAIN h |->
                   IF k = "rating"
                   THEN (IF h[k] = <<>> THEN JsonNull ELSE JsonNumber(h[k][1]))
                   ELSE JsonString(h[k])])
LoadInteraction(j) ==
    [k \in DOMAIN j.members |->
        IF j.members[k].json = "null" THEN <<>>
        ELSE IF j.members[k].json = "number" THEN <<j.members[k].v>>
        ELSE j.members[k].v]

\* the ratings dict: book id to int
DumpRatings(r) == JsonObject([k \in DOMAIN r |-> JsonNumber(r[k])])
LoadRatings(j) == [k \in DOMAIN j.members |-> j.members[k].v]

\* json.dumps of the profile: every key of the document is written
json_dumps(d) ==
    JsonObject([k \in DOMAIN d |->
                   CASE k = "preferences" -> DumpPreferences(d[k])
                     [] k = "history" ->
                            JsonArray([i \in 1..Len(d[k]) |->
                                          DumpInteraction(d[k][i])])
                     [] k = "ratings" -> DumpRatings(d[k])
                     [] k = "bookmarks" -> DumpStrings(d[k])
                     [] OTHER -> JsonString(d[k])])

\* json.loads of a stored profile text
json_loads(text) ==
    [k \in DOMAIN text.members |->
        CASE k = "preferences" -> LoadPreferences(text.members[k])
          [] k = "history" ->
                 [i \in 1..Len(text.members[k].items) |->
                     LoadInteraction(text.members[k].items[i])]
          [] k = "ratings" -> LoadRatings(text.members[k])
          [] text.members[k].json = "array" -> LoadStrings(text.members[k])
          [] OTHER -> text.members[k].v]

NoFile == [exists |-> FALSE]

\* the records of s that t does not hold
Missing(s, t) ==
    LET F[i \in 0..Len(s)] ==
            IF i = 0 THEN <<>>
            ELSE IF \E j \in 1..Len(t) : t[j] = s[i] THEN F[i - 1]
            ELSE Append(F[i - 1], s[i])
    IN  F[Len(s)]

\* save_user_data keeping the stored interactions the profile does not hold
save_user_data_merging(d) ==
    IF user_file.exists
    THEN LET stored == json_loads(user_file.text).history
         IN  [exists |-> TRUE,
              text |-> json_dumps([d EXCEPT !.history =
                                      stored \o Missing(d.history, stored)])]
    ELSE [exists |-> TRUE, text |-> json_dumps(d)]

\* save_user_data: the whole document overwrites the file
save_user_data(d) == [exists |-> TRUE, text |-> json_dumps(d)]

\* _load_user_data at time t
_load_user_data(file, t) ==
    IF file.exists THEN json_loads(file.text) ELSE DefaultUserData(t)

----------------------------------------------------------------------------
(* The catalog document *)

\* _load_catalog: the stored document, or {"books": []} when no file exists
_load_catalog(file) ==
    IF file.exists THEN file.doc ELSE [books |-> <<>>]

\* self.catalog.get("books", [])
Books(cat) == Get(cat, "books", <<>>)

\* _get_book_by_id: the first book with that id, <<>> for None
_get_book_by_id(cat, book_id) ==
    LET books == Books(cat)
        hits == {i \in 1..Len(books) :
                    "id" \in DOMAIN books[i] /\ books[i].id = book_id}
    IN  IF hits = {} THEN <<>>
        ELSE <<books[CHOOSE i \in hits : \A j \in hits : i <= j]>>

----------------------------------------------------------------------------
(* Sorting: list.sort / sorted with reverse=True are stable, so elements   *)
(* with equal keys keep their original relative order.  Keys are tuples of *)
(* integers compared lexicographically.                                    *)

KeyGreater(a, b) ==
    \E i \in 1..Len(a) :
        /\ a[i] > b[i]
        /\ \A j \in 1..(i - 1) : a[j] = b[j]

\* the position element i takes in the sorted list
SortedRank(keys, i) ==
    1 + Cardinality({j \in 1..Len(keys) : KeyGreater(keys[j], keys[i])})
      + Cardinality({j \in 1..(i - 1) : keys[j] = keys[i]})

\* sorted(s, key=..., reverse=True), keys[i] being the key of s[i]
SortedDesc(s, keys) ==
    [p \in 1..Len(s) |->
        s[CHOOSE i \in 1..Len(s) : SortedRank(keys, i) = p]]

\* [x for x in s if keep[i]], keep being a sequence of booleans
RECURSIVE FilterSeq(_, _)
FilterSeq(s, keep) ==
    IF s = <<>> THEN <<>>
    ELSE (IF Head(keep) THEN <<Head(s)>> ELSE <<>>)
             \o FilterSeq(Tail(s), Tail(keep))

\* concatenation of a sequence of sequences
RECURSIVE Flatten(_)
Flatten(ss) == IF ss = <<>> THEN <<>> ELSE Head(ss) \o Flatten(Tail(ss))

----------------------------------------------------------------------------
(* Relevance score *)

GenreWeight == 3
AuthorWeight == 4
ThemeWeight == 2
LevelWeight == 2
HighRating == 45
HighRatingBonus == 5
GoodRating == 40
GoodRatingBonus == 3

\* len(set(a) & set(b))
SetMatches(a, b) == Cardinality(ToSet(a) \cap ToSet(b))

\* _calculate_relevance_score with the two rating bonuses tested independently
_calculate_relevance_score_both_bonuses(prefs, book) ==
    LET genre_matches == SetMatches(Get(book, "genres", <<>>),
                                    Get(prefs, "genres", <<>>))
        author_score ==
            IF InList(Get(book, "author", ""), Get(prefs, "authors", <<>>))
            THEN AuthorWeight ELSE 0
        theme_matches == SetMatches(Get(book, "themes", <<>>),
                                    Get(prefs, "themes", <<>>))
        level_score ==
            IF /\ "reading_level" \in DOMAIN book
               /\ "reading_level" \in DOMAIN prefs
               /\ book.reading_level = prefs.reading_level
            THEN LevelWeight ELSE 0
        format_matches == SetMatches(Get(book, "formats", <<>>),
                                     Get(prefs, "format_preference", <<>>))
        avg_rating == Get(book, "average_rating", 0)
        rating_bonus == (IF avg_rating >= HighRating THEN HighRatingBonus ELSE 0)
                        + (IF avg_rating >= GoodRating THEN GoodRatingBonus ELSE 0)
    IN  genre_matches * GenreWeight + author_score
          + theme_matches * ThemeWeight + level_score
          + format_matches + rating_bonus

_calculate_relevance_score(prefs, book) ==
    LET genre_matches == SetMatches(Get(book, "genres", <<>>),
                                    Get(prefs, "genres", <<>>))
        author_score ==
            IF InList(Get(book, "author", ""), Get(prefs, "authors", <<>>))
            THEN AuthorWeight ELSE 0
        theme_matches == SetMatches(Get(book, "themes", <<>>),
                                    Get(prefs, "themes", <<>>))
        level_score ==
            IF /\ "reading_level" \in DOMAIN book
               /\ "reading_level" \in DOMAIN prefs
               /\ book.reading_level = prefs.reading_level
            THEN LevelWeight ELSE 0
        format_matches == SetMatches(Get(book, "formats", <<>>),
                                     Get(prefs, "format_preference", <<>>))
        avg_rating == Get(book, "average_rating", 0)
        rating_bonus == IF avg_rating >= HighRating THEN HighRatingBonus
                        ELSE IF avg_rating >= GoodRating THEN GoodRatingBonus
                        ELSE 0
    IN  genre_matches * GenreWeight + author_score
          + theme_matches * ThemeWeight + level_score
          + format_matches + rating_bonus

----------------------------------------------------------------------------
(* Recommendations *)

Ok(v) == [status |-> "ok", value |-> v]
Raised(e) == [status |-> "raised", value |-> e]

_get_default_recommendations(cat, n) ==
    LET books == Books(cat)
        keys == [i \in 1..Len(books) |->
                    <<Get(books[i], "average_rating", 0),
                      Get(books[i], "popularity", 0)>>]
    IN  IF books = <<>> THEN <<>>
        ELSE Take(SortedDesc(books, keys), n)

\* the set comprehension {h["book_id"] for h in history}
ReadBooks(history) == {history[i].book_id : i \in 1..Len(history)}

\* book.get("id") not in read_books; a missing id is None, never an element
NotRead(book, read_books) ==
    "id" \notin DOMAIN book \/ book.id \notin read_books

\* get_recommendations without the filter on read books
get_recommendations_unfiltered(ud, cat, n) ==
    IF "books" \notin DOMAIN cat THEN Raised("KeyError")
    ELSE IF cat.books = <<>> THEN Ok(_get_default_recommendations(cat, n))
    ELSE
        LET books == cat.books
            scores == [i \in 1..Len(books) |->
                         <<_calculate_relevance_score(ud.preferences, books[i])>>]
        IN  Ok(Take(SortedDesc(books, scores), n))

\* get_recommendations taking the top n before filtering the read books
get_recommendations_slice_first(ud, cat, n) ==
    IF "books" \notin DOMAIN cat THEN Raised("KeyError")
    ELSE IF cat.books = <<>> THEN Ok(_get_default_recommendations(cat, n))
    ELSE
        LET books == cat.books
            scores == [i \in 1..Len(books) |->
                         <<_calculate_relevance_score(ud.preferences, books[i])>>]
            sorted == Take(SortedDesc(books, scores), n)
            read_books == ReadBooks(ud.history)
            keep == [i \in 1..Len(sorted) |-> NotRead(sorted[i], read_books)]
        IN  Ok(FilterSeq(sorted, keep))

get_recommendations(ud, cat, n) ==
    IF "books" \notin DOMAIN cat THEN Raised("KeyError")
    ELSE IF cat.books = <<>> THEN Ok(_get_default_recommendations(cat, n))
    ELSE
        LET books == cat.books
            scores == [i \in 1..Len(books) |->
                         <<_calculate_relevance_score(ud.preferences, books[i])>>]
            sorted == SortedDesc(books, scores)
            read_books == ReadBooks(ud.history)
            keep == [i \in 1..Len(sorted) |-> NotRead(sorted[i], read_books)]
        IN  Ok(Take(FilterSeq(sorted, keep), n))

----------------------------------------------------------------------------
(* Feed *)

FeedRecommendations == 5
ContinueReadingLimit == 3
NewInGenresLimit == 5
TrendingLimit == 5
NewBookDays == 30
HalfDaysPerDay == 2

\* any(h["book_id"] == book_id and h["action"] == "completed" for h in history)
Completed(history, book_id) ==
    \E j \in 1..Len(history) :
        history[j].book_id = book_id /\ history[j].action = "completed"

\* one pass of the loop of _get_continue_reading: what interaction h appends
InProgressOf(ud, cat, h) ==
    IF h.action = "started" /\ ~Completed(ud.history, h.book_id)
    THEN _get_book_by_id(cat, h.book_id)
    ELSE <<>>

_get_continue_reading(ud, cat) ==
    LET in_progress ==
            Flatten([i \in 1..Len(ud.history) |->
                        InProgressOf(ud, cat, ud.history[i])])
    IN  Take(in_progress, ContinueReadingLimit)

EmptyDate == [kind |-> "empty", t |-> 0]

\* (datetime.now() - date).days: timedelta.days is the floor of the
\* difference in days
DaysBetween(t, date_t) == (t - date_t) \div HalfDaysPerDay

\* the body of the `if added_date:` block: fromisoformat raises on a string
\* that is no ISO date and the subtraction raises on a timezone-aware date;
\* the bare except swallows both
AddedRecently(added_date, t) ==
    /\ added_date.kind # "empty"
    /\ added_date.kind = "naive"
    /\ DaysBetween(t, added_date.t) <= NewBookDays

\* any(g in preferred_genres for g in book_genres)
AnyGenrePreferred(book, preferred_genres) ==
    LET book_genres == Get(book, "genres", <<>>)
    IN  \E i \in 1..Len(book_genres) : InList(book_genres[i], preferred_genres)

_get_new_in_preferred_genres(ud, cat, t) ==
    LET preferred_genres == Get(ud.preferences, "genres", <<>>)
        books == Books(cat)
        keep == [i \in 1..Len(books) |->
                    /\ AnyGenrePreferred(books[i], preferred_genres)
                    /\ AddedRecently(Get(books[i], "added_date", EmptyDate), t)]
    IN  Take(FilterSeq(books, keep), NewInGenresLimit)

\* the whole catalog in trending order
_get_trending_all(cat) ==
    LET books == Books(cat)
        keys == [i \in 1..Len(books) |-> <<Get(books[i], "recent_views", 0)>>]
    IN  SortedDesc(books, keys)

_get_trending(cat) ==
    LET books == Books(cat)
        keys == [i \in 1..Len(books) |-> <<Get(books[i], "recent_views", 0)>>]
    IN  Take(SortedDesc(books, keys), TrendingLimit)

generate_personalized_feed(ud, cat, t) ==
    LET recs == get_recommendations(ud, cat, FeedRecommendations)
    IN  IF recs.status = "raised" THEN recs
        ELSE Ok([recommendations |-> recs.value,
                 continue_reading |-> _get_continue_reading(ud, cat),
                 new_in_genres |-> _get_new_in_preferred_genres(ud, cat, t),
                 trending |-> _get_trending(cat),
                 generated_at |-> t])

----------------------------------------------------------------------------
(* Preference analysis *)

TopGenresLimit == 3
FewTopGenres == 3
FewRatings == 5

InsufficientData ==
    [message |-> "Not enough data to analyze preferences",
     recommendations |->
        <<"Start reading books to get personalized recommendations">>]

\* the genres one interaction adds to genre_counts, in order
GenresOf(cat, h) ==
    LET book == _get_book_by_id(cat, h.book_id)
    IN  IF book = <<>> THEN <<>> ELSE Get(book[1], "genres", <<>>)

\* the keys of a defaultdict in insertion order: each value of s once, at
\* the place of its first occurrence
FirstOccurrences(s) ==
    FilterSeq(s, [i \in 1..Len(s) |-> \A j \in 1..(i - 1) : s[j] # s[i]])

CountOf(x, s) == Cardinality({i \in 1..Len(s) : s[i] = x})

\* genre_counts.items(): (genre, count) pairs in insertion order
GenreCounts(ud, cat) ==
    LET occ == Flatten([i \in 1..Len(ud.history) |->
                            GenresOf(cat, ud.history[i])])
        keys == FirstOccurrences(occ)
    IN  [i \in 1..Len(keys) |-> <<keys[i], CountOf(keys[i], occ)>>]

\* top_genres sorted without reverse=True
TopGenres_ascending(ud, cat) ==
    LET items == GenreCounts(ud, cat)
        keys == [i \in 1..Len(items) |-> <<0 - items[i][2]>>]
    IN  Take(SortedDesc(items, keys), TopGenresLimit)

TopGenres(ud, cat) ==
    LET items == GenreCounts(ud, cat)
        keys == [i \in 1..Len(items) |-> <<items[i][2]>>]
    IN  Take(SortedDesc(items, keys), TopGenresLimit)

\* dict(actions): the number of interactions per action
ReadingPatterns(history) ==
    [a \in {history[i].action : i \in 1..Len(history)} |->
        Cardinality({i \in 1..Len(history) : history[i].action = a})]

RECURSIVE SumOver(_, _)
SumOver(f, keys) ==
    IF keys = {} THEN 0
    ELSE LET k == CHOOSE x \in keys : TRUE
         IN  f[k] + SumOver(f, keys \ {k})

\* round(sum / len, 2) in hundredths, halves rounded to even; 0 without ratings
AverageRatingGiven(ratings) ==
    LET n == Cardinality(DOMAIN ratings)
        total == SumOver(ratings, DOMAIN ratings) * 100
        q == total \div n
        r == total % n
    IN  IF n = 0 THEN 0
        ELSE IF 2 * r > n THEN q + 1
        ELSE IF 2 * r = n /\ q % 2 = 1 THEN q + 1
        ELSE q

_generate_preference_suggestions(ud, top_genres) ==
    (IF top_genres = <<>>
     THEN <<<<"Explore different genres to get better recommendations">>>>
     ELSE IF Len(top_genres) < FewTopGenres
     THEN <<<<"You seem to like", top_genres[1][1],
              "try exploring similar genres">>>>
     ELSE <<>>)
    \o (IF Cardinality(DOMAIN ud.ratings) < FewRatings
        THEN <<<<"Rate more books to improve recommendations">>>>
        ELSE <<>>)

\* analyze_preferences without the early return on an empty history
analyze_preferences_no_early_return(ud, cat) ==
    LET top_genres == TopGenres(ud, cat)
    IN  [status |-> "ok",
         value |->
            [top_genres |-> [i \in 1..Len(top_genres) |-> top_genres[i][1]],
             reading_patterns |-> ReadingPatterns(ud.history),
             average_rating_given |-> AverageRatingGiven(ud.ratings),
             total_books_interacted |-> Cardinality(ReadBooks(ud.history)),
             suggestions |-> _generate_preference_suggestions(ud, top_genres)],
         lookups |-> Len(ud.history)]

\* the report and the number of _get_book_by_id calls made to build it
analyze_preferences(ud, cat) ==
    IF ud.history = <<>>
    THEN [status |-> "ok", value |-> InsufficientData, lookups |-> 0]
    ELSE
        LET top_genres == TopGenres(ud, cat)
        IN  [status |-> "ok",
             value |->
                [top_genres |-> [i \in 1..Len(top_genres) |-> top_genres[i][1]],
                 reading_patterns |-> ReadingPatterns(ud.history),
                 average_rating_given |-> AverageRatingGiven(ud.ratings),
                 total_books_interacted |->
                     Cardinality(ReadBooks(ud.history)),
                 suggestions |->
                     _generate_preference_suggestions(ud, top_genres)],
             lookups |-> Len(ud.history)]

----------------------------------------------------------------------------
(* Mutations of the profile *)

\* add_preference without the membership test
add_preference_always_appends(ud, category, value) ==
    LET prefs == ud.preferences
    IN  IF category \in DOMAIN prefs
        THEN IF category \in ListCategories
             THEN [ud EXCEPT !.preferences[category] = Append(@, value)]
             ELSE [ud EXCEPT !.preferences[category] = value]
        ELSE ud

add_preference(ud, category, value) ==
    LET prefs == ud.preferences
    IN  IF category \in DOMAIN prefs
        THEN IF category \in ListCategories
             THEN IF ~InList(value, prefs[category])
                  THEN [ud EXCEPT !.preferences[category] = Append(@, value)]
                  ELSE ud
             ELSE [ud EXCEPT !.preferences[category] = value]
        ELSE ud

\* record_interaction putting the new record at the front of the history
record_interaction_prepends(ud, book_id, action, rating, t) ==
    LET interaction == [book_id |-> book_id,
                        action |-> action,
                        timestamp |-> t,
                        rating |-> rating]
        ratings == IF TruthyInt(rating)
                   THEN DictSet(ud.ratings, book_id, rating[1])
                   ELSE ud.ratings
        bookmarks == IF action = "bookmarked" /\ ~InList(book_id, ud.bookmarks)
                     THEN Append(ud.bookmarks, book_id)
                     ELSE ud.bookmarks
    IN  [ud EXCEPT !.history = <<interaction>> \o @,
                   !.ratings = ratings,
                   !.bookmarks = bookmarks]

\* record_interaction keeping the first rating of a book
record_interaction_first_rating(ud, book_id, action, rating, t) ==
    LET interaction == [book_id |-> book_id,
                        action |-> action,
                        timestamp |-> t,
                        rating |-> rating]
        ratings == IF TruthyInt(rating) /\ book_id \notin DOMAIN ud.ratings
                   THEN DictSet(ud.ratings, book_id, rating[1])
                   ELSE ud.ratings
        bookmarks == IF action = "bookmarked" /\ ~InList(book_id, ud.bookmarks)
                     THEN Append(ud.bookmarks, book_id)
                     ELSE ud.bookmarks
    IN  [ud EXCEPT !.history = Append(@, interaction),
                   !.ratings = ratings,
                   !.bookmarks = bookmarks]

record_interaction(ud, book_id, action, rating, t) ==
    LET interaction == [book_id |-> book_id,
                        action |-> action,
                        timestamp |-> t,
                        rating |-> rating]
        ratings == IF TruthyInt(rating)
                   THEN DictSet(ud.ratings, book_id, rating[1])
                   ELSE ud.ratings
        bookmarks == IF action = "bookmarked" /\ ~InList(book_id, ud.bookmarks)
                     THEN Append(ud.bookmarks, book_id)
                     ELSE ud.bookmarks
    IN  [ud EXCEPT !.history = Append(@, interaction),
                   !.ratings = ratings,
                   !.bookmarks = bookmarks]

----------------------------------------------------------------------------
(* Inputs *)

BookIds == {"b1", "b2"}

BookA == [id |-> "b1", title |-> "A", author |-> "X",
          genres |-> <<"scifi">>, average_rating |-> 46, recent_views |-> 5]
BookB == [id |-> "b2", title |-> "B", author |-> "X",
          genres |-> <<>>, average_rating |-> 30, recent_views |-> 9]
BookBare == [title |-> "C"]
BookDup == [id |-> "b4", title |-> "D", author |-> "Y",
            genres |-> <<"scifi", "scifi", "fantasy">>,
            themes |-> <<"space", "space">>,
            reading_level |-> "young",
            formats |-> <<"audio", "print", "audio">>,
            average_rating |-> 40]
BookMid == [id |-> "b5", title |-> "E", author |-> "X",
            genres |-> <<"fantasy", "scifi">>,
            themes |-> <<"space">>,
            reading_level |-> "general",
            formats |-> <<"digital">>,
            average_rating |-> 44, popularity |-> 3]
BookTop == [id |-> "b6", title |-> "F",
            genres |-> <<"fantasy">>, average_rating |-> 45]
BookLow == [id |-> "b7", title |-> "G", author |-> "Z",
            formats |-> <<"print">>, average_rating |-> 39]

Stored(doc) == [exists |-> TRUE, doc |-> doc]

\* catalog files of the engine session: none, a document without "books",
\* and catalogs with and without the ids the session interacts with, the
\* second one with two books of equal score
SessionCatalogFiles ==
    { NoFile,
      Stored(<<>>),
      Stored([books |-> <<BookB, BookA, BookMid>>]),
      Stored([books |-> <<BookBare, BookA, BookLow>>]) }

SessionPreferences ==
    { <<"genres", "scifi">>, <<"reading_level", "young">>, <<"mood", "calm">> }

\* record_interaction(book_id, action, rating) calls: <<action, rating>>
InteractionCalls ==
    ({"started", "completed", "bookmarked"} \X {<<>>})
        \cup ({"viewed"} \X {<<0>>, <<3>>, <<4>>})

\* the record_interaction calls of the engine session:
\* <<book_id, action, rating>>
SessionInteractions ==
    ({"b1", "b2"} \X {"started", "completed"} \X {<<>>})
        \cup ({"b1"} \X {"bookmarked"} \X {<<>>})
        \cup ({"b1"} \X {"viewed"} \X {<<0>>, <<3>>, <<4>>})

\* --book-id and --rating of the rate command, <<>> when not given
RateBookIdArgs == {<<>>, <<"">>, <<"b1">>}
RateRatingArgs == {<<>>, <<0>>, <<5>>, <<7>>}

----------------------------------------------------------------------------
(* Operations of an engine session.  result is the outcome of the last     *)
(* operation.                                                              *)

\* add_preference saving only inside the branch of a known category
AddPreference_saves_known_category(category, value) ==
    /\ user_data' = add_preference(user_data, category, value)
    /\ user_file' = IF category \in DOMAIN user_data.preferences
                    THEN save_user_data(user_data')
                    ELSE user_file
    /\ result' = [op |-> "add_preference", status |-> "ok",
                  args |-> <<category, value>>]
    /\ UNCHANGED <<catalog, now, peer_data>>

AddPreference(category, value) ==
    /\ user_data' = add_preference(user_data, category, value)
    /\ user_file' = save_user_data(user_data')
    /\ result' = [op |-> "add_preference", status |-> "ok",
                  args |-> <<category, value>>]
    /\ UNCHANGED <<catalog, now, peer_data>>

RecordInteraction(book_id, action, rating) ==
    /\ Len(user_data.history) < MaxHistory
    /\ user_data' = record_interaction(user_data, book_id, action, rating, now)
    /\ user_file' = save_user_data(user_data')
    /\ result' = [op |-> "record_interaction", status |-> "ok",
                  args |-> <<book_id, action, rating>>]
    /\ UNCHANGED <<catalog, now, peer_data>>

GetRecommendations(n) ==
    /\ result' = [op |-> "recommend", n |-> n]
                    @@ get_recommendations(user_data, catalog, n)
    /\ UNCHANGED <<user_data, user_file, catalog, now, peer_data>>

\* generate_personalized_feed with _get_trending sorting the catalog's own
\* list (books.sort) instead of a copy
GenerateFeed_sorts_catalog ==
    /\ result' = [op |-> "feed"]
                    @@ generate_personalized_feed(user_data, catalog, now)
    /\ catalog' = IF result'.status = "ok"
                  THEN [books |-> _get_trending_all(catalog)]
                  ELSE catalog
    /\ UNCHANGED <<user_data, user_file, now, peer_data>>

GenerateFeed ==
    /\ result' = [op |-> "feed"]
                    @@ generate_personalized_feed(user_data, catalog, now)
    /\ UNCHANGED <<user_data, user_file, catalog, now, peer_data>>

AnalyzePreferences ==
    /\ result' = [op |-> "analyze"] @@ analyze_preferences(user_data, catalog)
    /\ UNCHANGED <<user_data, user_file, catalog, now, peer_data>>

\* the rate command testing only --book-id
MainRate_unchecked_rating(book_id, rating) ==
    LET engine == _load_user_data(user_file, now)
    IN  /\ Len(engine.history) < MaxHistory
        /\ IF TruthyStr(book_id)
           THEN /\ user_data' = record_interaction(engine, book_id[1], "rated",
                                                   rating, now)
                /\ user_file' = save_user_data(user_data')
                /\ result' = [op |-> "rate", status |-> "ok",
                              book_id |-> book_id, rating |-> rating]
           ELSE /\ user_data' = engine
                /\ user_file' = user_file
                /\ result' = [op |-> "rate", status |-> "error",
                              book_id |-> book_id, rating |-> rating]
        /\ UNCHANGED <<catalog, now, peer_data>>

\* main() with --action rate: a new engine loads the stored profile, then
\* either records the rating or prints the usage message
MainRate(book_id, rating) ==
    LET engine == _load_user_data(user_file, now)
    IN  /\ Len(engine.history) < MaxHistory
        /\ IF TruthyStr(book_id) /\ TruthyInt(rating)
           THEN /\ user_data' = record_interaction(engine, book_id[1], "rated",
                                                   rating, now)
                /\ user_file' = save_user_data(user_data')
                /\ result' = [op |-> "rate", status |-> "ok",
                              book_id |-> book_id, rating |-> rating]
           ELSE /\ user_data' = engine
                /\ user_file' = user_file
                /\ result' = [op |-> "rate", status |-> "error",
                              book_id |-> book_id, rating |-> rating]
        /\ UNCHANGED <<catalog, now, peer_data>>

\* _calculate_relevance_score applied to the i-th book of the catalog
CalculateRelevanceScore(i) ==
    /\ i \in 1..Len(Books(catalog))
    /\ result' = [op |-> "score", status |-> "ok", book |-> i,
                  value |-> _calculate_relevance_score(user_data.preferences,
                                                       Books(catalog)[i])]
    /\ UNCHANGED <<user_data, user_file, catalog, now, peer_data>>

\* PersonalizationEngine(user_id) constructed a second time for the same
\* user id: it loads whatever document is stored at that moment
PeerInit ==
    /\ peer_data = <<>>
    /\ peer_data' = <<_load_user_data(user_file, now)>>
    /\ result' = [op |-> "peer_init", status |-> "ok"]
    /\ UNCHANGED <<user_data, user_file, catalog, now>>

\* record_interaction called on the second engine
PeerRecordInteraction(book_id, action, rating) ==
    /\ peer_data # <<>>
    /\ Len(peer_data[1].history) < MaxHistory
    /\ peer_data' = <<record_interaction(peer_data[1], book_id, action,
                                         rating, now)>>
    /\ user_file' = save_user_data(peer_data'[1])
    /\ result' = [op |-> "peer_record_interaction", status |-> "ok",
                  args |-> <<book_id, action, rating>>]
    /\ UNCHANGED <<user_data, catalog, now>>

\* the clock advances by half a day
Tick ==
    /\ now < MaxNow
    /\ now' = now + 1
    /\ UNCHANGED <<user_data, user_file, catalog, result, peer_data>>

----------------------------------------------------------------------------
(* The engine session: PersonalizationEngine() for a user without a stored *)
(* profile, then any sequence of calls.                                    *)

InitWith(catalog_files) ==
    /\ now = 0
    /\ user_file = NoFile
    /\ user_data = _load_user_data(user_file, now)
    /\ \E f \in catalog_files : catalog = _load_catalog(f)
    /\ result = [op |-> "init", status |-> "ok"]
    /\ peer_data = <<>>

Init == InitWith(SessionCatalogFiles)

Next ==
    \/ \E c \in SessionPreferences : AddPreference(c[1], c[2])
    \/ \E c \in SessionInteractions : RecordInteraction(c[1], c[2], c[3])
    \/ \E b \in RateBookIdArgs, r \in RateRatingArgs : MainRate(b, r)
    \/ \E n \in 0..MaxN : GetRecommendations(n)
    \/ GenerateFeed
    \/ AnalyzePreferences

Spec == Init /\ [][Next]_vars

----------------------------------------------------------------------------
(* Preferences and scoring: a session that sets preferences of every       *)
(* category and scores the books of its catalog.                           *)

ScoredBooks ==
    {BookA, BookB, BookBare, BookDup, BookMid, BookTop, BookLow}

ScoringCatalogFiles == {Stored([books |-> <<b>>]) : b \in ScoredBooks}

ScoringPreferences ==
    ({"genres"} \X {"scifi", "fantasy"})
        \cup ({"authors"} \X {"X"})
        \cup ({"themes"} \X {"space"})
        \cup ({"reading_level"} \X {"young", "general"})
        \cup ({"format_preference"} \X {"audio", "print"})
        \cup ({"mood"} \X {"calm"})

InitPrefs == InitWith(ScoringCatalogFiles)

NextPrefs ==
    \/ \E c \in ScoringPreferences : AddPreference(c[1], c[2])
    \/ \E i \in 1..Len(Books(catalog)) : CalculateRelevanceScore(i)

SpecPrefs == InitPrefs /\ [][NextPrefs]_vars

----------------------------------------------------------------------------
(* Feed over time: a session whose catalog carries added_date fields,      *)
(* read while the clock advances.                                          *)

Naive(t) == [kind |-> "naive", t |-> t]
Aware(t) == [kind |-> "aware", t |-> t]
Garbage == [kind |-> "garbage", t |-> 0]

Dated(id, genres, added_date) ==
    [id |-> id, genres |-> genres, added_date |-> added_date]

\* 30 days before the initial clock reading
MonthAgo == 0 - NewBookDays * HalfDaysPerDay

DatedBooks ==
    << Dated("d1", <<"scifi">>, Naive(1)),
       Dated("d2", <<"scifi">>, Naive(MonthAgo)),
       Dated("d3", <<"scifi">>, Garbage),
       Dated("d4", <<"scifi">>, Aware(-2)),
       Dated("d5", <<"scifi">>, EmptyDate),
       [id |-> "d6", genres |-> <<"scifi">>],
       Dated("d7", <<"fantasy">>, Naive(-2)) >>

RecentIds == <<"r1", "r2", "r3", "r4", "r5", "r6">>

RecentBooks ==
    [i \in 1..Len(RecentIds) |->
        Dated(RecentIds[i], <<"fantasy", "scifi">>, Naive(0 - i))]

FeedCatalogFiles ==
    { NoFile,
      Stored([books |-> DatedBooks]),
      Stored([books |-> RecentBooks]),
      Stored([books |-> <<DatedBooks[2], DatedBooks[7], BookBare>>]) }

FeedPreferences == {"genres"} \X {"scifi", "fantasy"}

InitFeed == InitWith(FeedCatalogFiles)

NextFeed ==
    \/ \E c \in FeedPreferences : AddPreference(c[1], c[2])
    \/ Tick
    \/ GenerateFeed

SpecFeed == InitFeed /\ [][NextFeed]_vars

----------------------------------------------------------------------------
(* Stored profiles: a session of a user whose profile document already     *)
(* exists when the engine is constructed.                                  *)

StoredProfiles ==
    { [DefaultUserData(0) EXCEPT !.ratings = r, !.preferences.genres = g,
                                 !.bookmarks = b] :
        r \in {<<>>, ("b1" :> 4), ("b1" :> 4) @@ ("b2" :> 1)},
        g \in {<<>>, <<"scifi">>},
        b \in {<<>>, <<"b2">>} }

InitStored ==
    /\ now = 0
    /\ user_file \in {NoFile} \cup {save_user_data(p) : p \in StoredProfiles}
    /\ user_data = _load_user_data(user_file, now)
    /\ \E f \in SessionCatalogFiles : catalog = _load_catalog(f)
    /\ result = [op |-> "init", status |-> "ok"]
    /\ peer_data = <<>>

NextStored ==
    \/ \E c \in SessionPreferences : AddPreference(c[1], c[2])
    \/ \E b \in BookIds, c \in InteractionCalls :
            RecordInteraction(b, c[1], c[2])
    \/ AnalyzePreferences

SpecStored == InitStored /\ [][NextStored]_vars

----------------------------------------------------------------------------
(* Two sessions: two engines for the same user id whose calls interleave   *)
(* in any order.                                                           *)

TwoSessionCalls ==
    { <<"b1", "started", <<>>>>, <<"b2", "viewed", <<4>>>> }

InitSessions == InitWith({NoFile})

NextSessions ==
    \/ \E c \in SessionPreferences : AddPreference(c[1], c[2])
    \/ \E c \in TwoSessionCalls : RecordInteraction(c[1], c[2], c[3])
    \/ PeerInit
    \/ \E c \in TwoSessionCalls : PeerRecordInteraction(c[1], c[2], c[3])

SpecSessions == InitSessions /\ [][NextSessions]_vars

----------------------------------------------------------------------------
(* Analysis: a session that interacts with books of several genres, and    *)
(* with an id the catalog does not hold, and analyzes its history.         *)

BookWide == [id |-> "b8", title |-> "H",
             genres |-> <<"noir", "epic", "scifi", "fantasy">>]

AnalysisCatalogFiles ==
    { NoFile,
      Stored([books |-> <<BookMid, BookDup, BookWide, BookA, BookBare>>]) }

AnalysisBookIds == {"b1", "b4", "b5", "b8", "zz"}

AnalysisCalls == {<<"started", <<>>>>, <<"viewed", <<4>>>>}

InitAnalysis == InitWith(AnalysisCatalogFiles)

NextAnalysis ==
    \/ \E b \in AnalysisBookIds, c \in AnalysisCalls :
            RecordInteraction(b, c[1], c[2])
    \/ AnalyzePreferences

SpecAnalysis == InitAnalysis /\ [][NextAnalysis]_vars

----------------------------------------------------------------------------
(* Properties *)

ValidRatings == 1..5

Last(s) == s[Len(s)]

\* C1: whenever get_recommendations(n) returns, it returns at most n items,
\* every one of them a book of the catalog, and none whose id is the book id
\* of an interaction of the history.
C1_RecommendationsBounded ==
    (result.op = "recommend" /\ result.status = "ok") =>
        /\ Len(result.value) <= result.n
        /\ \A i \in 1..Len(result.value) :
              /\ result.value[i] \in ToSet(Books(catalog))
              /\ \A j \in 1..Len(user_data.history) :
                    "id" \in DOMAIN result.value[i]
                        => result.value[i].id # user_data.history[j].book_id

\* a call that returned exactly n > 0 books, cut short and with a book of
\* the catalog left out because the history names it
C1_Witness ==
    /\ result.op = "recommend" /\ result.status = "ok"
    /\ result.n > 0 /\ Len(result.value) = result.n
    /\ \E i \in 1..Len(Books(catalog)) :
          /\ "id" \in DOMAIN Books(catalog)[i]
          /\ Books(catalog)[i].id \in ReadBooks(user_data.history)
    /\ Cardinality(ToSet(Books(catalog))) > result.n + 1

\* C2: when the last recorded interaction of a book carries rating r1 and
\* record_interaction is called for the same book and action with another
\* rating r2 (both in 1..5), ratings[book] becomes r2 and the history ends
\* with the two records, the earlier one first.
C2_LastRatingWins ==
    [][ \A r1, r2 \in ValidRatings :
          ( /\ r1 # r2
            /\ user_data.history # <<>>
            /\ Last(user_data.history).rating = <<r1>>
            /\ result'.op = "record_interaction"
            /\ result'.args = <<Last(user_data.history).book_id,
                                Last(user_data.history).action, <<r2>>>> )
          => LET h == user_data.history
                 h2 == user_data'.history
             IN  /\ user_data'.ratings[Last(h).book_id] = r2
                 /\ Len(h2) = Len(h) + 1
                 /\ SubSeq(h2, 1, Len(h)) = h
                 /\ Last(h2).book_id = Last(h).book_id
                 /\ Last(h2).action = Last(h).action
                 /\ Last(h2).rating = <<r2>> ]_vars

\* the state after the second of two such calls
C2_Witness ==
    /\ result.op = "record_interaction"
    /\ Len(user_data.history) >= 2
    /\ LET h == user_data.history
           a == h[Len(h) - 1]
           b == h[Len(h)]
       IN  /\ a.book_id = b.book_id /\ a.action = b.action
           /\ a.rating = <<3>> /\ b.rating = <<4>>
           /\ user_data.ratings[b.book_id] = 4

NoDuplicates(s) == \A i, j \in 1..Len(s) : s[i] = s[j] => i = j

\* C3: every list-valued preference holds each value at most once, and an
\* add_preference call that repeats the previous call leaves the profile and
\* the stored document as they were.
C3_AddPreferenceIdempotent ==
    /\ [](\A c \in ListCategories : NoDuplicates(user_data.preferences[c]))
    /\ [][ ( /\ result.op = "add_preference"
             /\ result'.op = "add_preference"
             /\ result'.args = result.args )
           => (user_data' = user_data /\ user_file' = user_file) ]_vars

\* a value added to a list that already holds another one, by a call that
\* a repeated call would follow
C3_Witness ==
    /\ result.op = "add_preference"
    /\ result.args = <<"genres", "fantasy">>
    /\ user_data.preferences.genres = <<"scifi", "fantasy">>
    /\ user_data.preferences.format_preference = <<"digital", "audio", "print">>

\* the number of entries of s that are in preferred
EntriesIn(s, preferred) ==
    Cardinality({i \in 1..Len(s) : InList(s[i], preferred)})

\* the number of distinct values of s that are in preferred
ValuesIn(s, preferred) ==
    Cardinality({v \in ToSet(s) : InList(v, preferred)})

\* the additive score for a given number of matching genres
AdditiveScore(prefs, book, genres) ==
    LET rating == Get(book, "average_rating", 0)
    IN  3 * genres
          + (IF InList(Get(book, "author", ""), prefs.authors) THEN 4 ELSE 0)
          + 2 * ValuesIn(Get(book, "themes", <<>>), prefs.themes)
          + (IF "reading_level" \in DOMAIN book
                   /\ book.reading_level = prefs.reading_level
             THEN 2 ELSE 0)
          + ValuesIn(Get(book, "formats", <<>>), prefs.format_preference)
          + (IF rating >= 45 THEN 5 ELSE IF rating >= 40 THEN 3 ELSE 0)

ScoredBook == Books(catalog)[result.book]

\* C4 as stated: the score is the additive sum with 3 for each entry of
\* item.genres that is a preferred genre.
C4_ScorePerGenreEntry ==
    result.op = "score" =>
        result.value =
            AdditiveScore(user_data.preferences, ScoredBook,
                          EntriesIn(Get(ScoredBook, "genres", <<>>),
                                    user_data.preferences.genres))

\* C4 amended: the score is the additive sum with 3 for each distinct genre
\* that is both in item.genres and in the preferred genres.
C4_ScorePerDistinctGenre ==
    result.op = "score" =>
        result.value =
            AdditiveScore(user_data.preferences, ScoredBook,
                          ValuesIn(Get(ScoredBook, "genres", <<>>),
                                   user_data.preferences.genres))

\* a book that repeats a genre, scored for a profile that matches it in
\* every term
C4_Witness ==
    /\ result.op = "score"
    /\ ScoredBook = BookDup
    /\ ToSet(user_data.preferences.genres) = {"scifi", "fantasy"}
    /\ user_data.preferences.reading_level = "young"
    /\ InList("space", user_data.preferences.themes)
    /\ InList("print", user_data.preferences.format_preference)
    /\ result.value = 15

\* the ids of the started and never completed interactions, in order
StartedIds(history) ==
    LET ids == [i \in 1..Len(history) |-> history[i].book_id]
        keep == [i \in 1..Len(history) |->
                    /\ history[i].action = "started"
                    /\ ~\E j \in 1..Len(history) :
                          /\ history[j].book_id = history[i].book_id
                          /\ history[j].action = "completed"]
    IN  FilterSeq(ids, keep)

\* the catalog entries of a list of ids, ids without an entry left out
EntriesOf(cat, ids) ==
    Flatten([i \in 1..Len(ids) |-> _get_book_by_id(cat, ids[i])])

\* C5: continue_reading is the catalog entries of the started and never
\* completed items, each once, in order of first start, cut to 3.
C5_ContinueReadingDeduplicated ==
    (result.op = "feed" /\ result.status = "ok") =>
        result.value.continue_reading =
            Take(EntriesOf(catalog,
                           FirstOccurrences(StartedIds(user_data.history))), 3)

\* C6: every stored rating is between 1 and 5.
C6_RatingsInRange ==
    \A b \in DOMAIN user_data.ratings : user_data.ratings[b] \in ValidRatings

\* what C7 says of a step of the rate command; an item id counts as
\* supplied when it is given and, if nonempty_id, is not the empty string
RateOutcome(nonempty_id) ==
    result'.op = "rate" =>
        LET b == result'.book_id
            r == result'.rating
        IN  /\ (b = <<>> \/ r = <<>>) =>
                  /\ result'.status = "error"
                  /\ user_data'.history = user_data.history
                  /\ user_data'.ratings = user_data.ratings
                  /\ user_data'.bookmarks = user_data.bookmarks
                  /\ user_file' = user_file
            /\ ( /\ b # <<>> /\ r # <<>>
                 /\ nonempty_id => b[1] # ""
                 /\ r[1] \in ValidRatings ) =>
                  /\ result'.status = "ok"
                  /\ user_data'.history =
                        Append(user_data.history,
                               [book_id |-> b[1], action |-> "rated",
                                timestamp |-> now, rating |-> r])

\* C7 as stated: a missing item id or rating ends in the error outcome with
\* the profile and the stored document unchanged, and any item id with any
\* rating in 1..5 records one rated interaction.
C7_RateAnyId == [][RateOutcome(FALSE)]_vars

\* C7 amended: the same, for any item id that is not the empty string.
C7_RateNonEmptyId == [][RateOutcome(TRUE)]_vars

\* a rate command without --book-id, after the profile has been stored
C7_Witness ==
    /\ result.op = "rate" /\ result.status = "error"
    /\ result.book_id = <<>> /\ result.rating = <<5>>
    /\ user_file.exists
    /\ Len(user_data.history) = 1
    /\ DOMAIN user_data.ratings = {"b1"}

\* C8: analyze_preferences on an empty history returns the fixed
\* insufficient-data report without raising and without a catalog lookup.
C8_EmptyHistoryReport ==
    (result.op = "analyze" /\ user_data.history = <<>>) =>
        /\ result.status = "ok"
        /\ result.lookups = 0
        /\ DOMAIN result.value = {"message", "recommendations"}
        /\ result.value.message = "Not enough data to analyze preferences"
        /\ result.value.recommendations =
              <<"Start reading books to get personalized recommendations">>

\* the report for a stored profile with ratings and no history, over a
\* catalog with books
C8_Witness ==
    /\ result.op = "analyze"
    /\ user_data.history = <<>>
    /\ DOMAIN user_data.ratings = {"b1", "b2"}
    /\ user_data.preferences.genres # <<>>
    /\ Books(catalog) # <<>>

\* C9: generate_personalized_feed never raises and each of its four parts
\* is a list.
C9_FeedNeverRaises ==
    result.op = "feed" =>
        /\ result.status = "ok"
        /\ \A part \in {"recommendations", "continue_reading",
                        "new_in_genres", "trending"} :
              DOMAIN result.value[part] = 1..Len(result.value[part])

\* the books of the catalog that share a genre with the preferred genres and
\* whose added_date is a timestamp between 30 days before t and t
NewWithin30Days(ud, cat, t) ==
    LET books == Books(cat)
        keep == [i \in 1..Len(books) |->
                    LET d == Get(books[i], "added_date", EmptyDate)
                    IN  /\ ToSet(Get(books[i], "genres", <<>>))
                              \cap ToSet(ud.preferences.genres) # {}
                        /\ d.kind \in {"naive", "aware"}
                        /\ d.t <= t
                        /\ t - d.t <= 30 * HalfDaysPerDay]
    IN  FilterSeq(books, keep)

\* C10: new_in_genres is the books of the catalog, in catalog order and cut
\* to 5, that share a genre with the preferred genres and were added within
\* the 30 days before the feed was generated.
C10_NewInGenresWithin30Days ==
    (result.op = "feed" /\ result.status = "ok") =>
        result.value.new_in_genres =
            Take(NewWithin30Days(user_data, catalog, result.value.generated_at),
                 5)

Min(a, b) == IF a <= b THEN a ELSE b

\* the positions of the catalog books that no interaction of the history names
Unread(ud, cat) ==
    {i \in 1..Len(Books(cat)) :
        "id" \in DOMAIN Books(cat)[i] =>
            \A j \in 1..Len(ud.history) :
                ud.history[j].book_id # Books(cat)[i].id}

ScoreAt(ud, cat, i) == _calculate_relevance_score(ud.preferences, Books(cat)[i])

\* book i comes before book j: higher score, or equal score and earlier in
\* the catalog
RanksBefore(ud, cat, i, j) ==
    \/ ScoreAt(ud, cat, i) > ScoreAt(ud, cat, j)
    \/ ScoreAt(ud, cat, i) = ScoreAt(ud, cat, j) /\ i < j

\* C11: get_recommendations(n) returns the first min(n, k) of the k unread
\* catalog books in order of non-increasing score, books of equal score in
\* catalog order, without padding; an empty catalog gives the empty sequence.
C11_RankedUnreadPrefix ==
    (result.op = "recommend" /\ result.status = "ok") =>
        LET unread == Unread(user_data, catalog)
            m == Min(result.n, Cardinality(unread))
        IN  /\ Len(result.value) = m
            /\ Books(catalog) = <<>> => result.value = <<>>
            /\ \E pos \in [1..m -> unread] :
                  /\ \A p \in 1..m : result.value[p] = Books(catalog)[pos[p]]
                  /\ \A p, q \in 1..m :
                        p < q => RanksBefore(user_data, catalog, pos[p], pos[q])
                  /\ \A p \in 1..m : \A j \in unread :
                        (\A q \in 1..m : pos[q] # j)
                            => RanksBefore(user_data, catalog, pos[p], j)

\* the best-scoring book left out because the history names it, and the two
\* remaining books, of equal score, returned in catalog order
C11_Witness ==
    /\ result.op = "recommend" /\ result.status = "ok"
    /\ catalog = [books |-> <<BookBare, BookA, BookLow>>]
    /\ result.n = 2
    /\ result.value = <<BookBare, BookLow>>
    /\ "b1" \in ReadBooks(user_data.history)


IsPrefix(s, t) == Len(s) <= Len(t) /\ SubSeq(t, 1, Len(s)) = s

\* C12: every step leaves the history a prefix of the new history;
\* record_interaction adds exactly one record at the end, and add_preference,
\* get_recommendations, generate_personalized_feed and analyze_preferences
\* leave the history as it is.
C12_HistoryAppendOnly ==
    [][ /\ IsPrefix(user_data.history, user_data'.history)
        /\ result'.op = "record_interaction" =>
              /\ Len(user_data'.history) = Len(user_data.history) + 1
              /\ Last(user_data'.history).book_id = result'.args[1]
              /\ Last(user_data'.history).action = result'.args[2]
              /\ Last(user_data'.history).rating = result'.args[3]
        /\ result'.op \in {"add_preference", "recommend", "feed", "analyze"} =>
              user_data'.history = user_data.history ]_vars

\* a second, different record appended behind the first
C12_Witness ==
    /\ result.op = "record_interaction"
    /\ Len(user_data.history) = 2
    /\ user_data.history[1].book_id = "b2"
    /\ user_data.history[1].action = "started"
    /\ user_data.history[2].book_id = "b1"
    /\ user_data.history[2].action = "completed"
    /\ result.args = <<"b1", "completed", <<>>>>


ProfileFields == {"preferences", "history", "ratings", "bookmarks", "created_at"}

\* C13: right after every add_preference and record_interaction call the
\* stored user document exists and a load of it returns the in-memory
\* profile, equal in every field.
C13_WriteThrough ==
    [][ result'.op \in {"add_preference", "record_interaction"} =>
          /\ user_file'.exists
          /\ LET loaded == _load_user_data(user_file', now')
             IN  /\ DOMAIN loaded = ProfileFields
                 /\ \A f \in ProfileFields : loaded[f] = user_data'[f] ]_vars

\* the document stored by an add_preference call for an unknown category,
\* made first on a profile that had no file
C13_Witness ==
    /\ result.op = "add_preference"
    /\ result.args = <<"mood", "calm">>
    /\ user_file.exists
    /\ user_data = DefaultUserData(0)
    /\ _load_user_data(user_file, now) = user_data


\* the history of the stored document, empty while there is no document
StoredHistory(file) ==
    IF file.exists THEN json_loads(file.text).history ELSE <<>>

\* the profile d is what a load of the stored document would return
UpToDate(d) ==
    IF user_file.exists THEN json_loads(user_file.text) = d
    ELSE d.history = <<>>

\* what C14 says of a save by the session whose profile goes from d to e
SaveOutcome(d, e) ==
    /\ user_file'.exists
    /\ json_loads(user_file'.text) = e
    /\ UpToDate(d) => IsPrefix(StoredHistory(user_file), StoredHistory(user_file'))

\* C14: after every save the stored document is exactly the profile of the
\* session that saved, whatever the other session had stored; and a session
\* that mutates while its profile is the stored one (sessions serialized)
\* removes no interaction from the stored history.
C14_LastSaveWins ==
    [][ /\ result'.op \in {"add_preference", "record_interaction"} =>
              SaveOutcome(user_data, user_data')
        /\ result'.op = "peer_record_interaction" =>
              SaveOutcome(peer_data[1], peer_data'[1]) ]_vars

\* a lost update: both sessions loaded the empty profile, each recorded one
\* interaction, and the stored history holds only the one saved last
C14_Witness ==
    /\ peer_data # <<>>
    /\ Len(user_data.history) = 1 /\ Len(peer_data[1].history) = 1
    /\ user_data.history[1].book_id = "b1"
    /\ peer_data[1].history[1].book_id = "b2"
    /\ result.op = "peer_record_interaction"
    /\ StoredHistory(user_file) = peer_data[1].history
    /\ \A i \in 1..Len(StoredHistory(user_file)) :
          StoredHistory(user_file)[i] # user_data.history[1]


\* the genre occurrences of the history: <<i, k>> for the k-th entry of the
\* genres of the catalog book that interaction i resolves to
Occurrences(ud, cat) ==
    UNION {{<<i, k>> : k \in 1..Len(GenresOf(cat, ud.history[i]))} :
              i \in 1..Len(ud.history)}

GenreAt(ud, cat, p) == GenresOf(cat, ud.history[p[1]])[p[2]]

OccurrencesOf(ud, cat, g) ==
    {p \in Occurrences(ud, cat) : GenreAt(ud, cat, p) = g}

\* genre g is met before genre h while scanning the history
SeenBefore(ud, cat, g, h) ==
    \E p \in OccurrencesOf(ud, cat, g) : \A q \in OccurrencesOf(ud, cat, h) :
        p[1] < q[1] \/ (p[1] = q[1] /\ p[2] < q[2])

\* genre g is reported before genre h: more occurrences, or as many and met
\* first
GenreRanksBefore(ud, cat, g, h) ==
    LET cg == Cardinality(OccurrencesOf(ud, cat, g))
        ch == Cardinality(OccurrencesOf(ud, cat, h))
    IN  cg > ch \/ (cg = ch /\ SeenBefore(ud, cat, g, h))

\* C15: for a non-empty history top_genres is the up to 3 genres with the
\* most occurrences, an interaction counting once for every entry of the
\* genres of the book it resolves to and not at all when it resolves to none,
\* in order of descending count, equal counts in order of first encounter;
\* total_books_interacted is the number of distinct book ids of the history.
C15_TopGenres ==
    (result.op = "analyze" /\ user_data.history # <<>>) =>
        LET top == result.value.top_genres
            genres == {GenreAt(user_data, catalog, p) :
                          p \in Occurrences(user_data, catalog)}
            h == user_data.history
        IN  /\ result.status = "ok"
            /\ Len(top) = Min(3, Cardinality(genres))
            /\ \A p \in 1..Len(top) : top[p] \in genres
            /\ \A p, q \in 1..Len(top) :
                  p < q => GenreRanksBefore(user_data, catalog, top[p], top[q])
            /\ \A g \in genres \ ToSet(top) : \A p \in 1..Len(top) :
                  GenreRanksBefore(user_data, catalog, top[p], g)
            /\ result.value.total_books_interacted =
                  Cardinality({i \in 1..Len(h) :
                      \A j \in 1..(i - 1) : h[j].book_id # h[i].book_id})

\* two books sharing genres: scifi counted 3 times, fantasy 2, then noir
\* and epic once each, noir met first and epic cut off
C15_Witness ==
    /\ result.op = "analyze"
    /\ Len(user_data.history) = 2
    /\ user_data.history[1].book_id = "b4"
    /\ user_data.history[2].book_id = "b8"
    /\ result.value.top_genres = <<"scifi", "fantasy", "noir">>
    /\ result.value.total_books_interacted = 2


\* C16: no operation changes the catalog; get_recommendations,
\* generate_personalized_feed and analyze_preferences change neither the
\* in-memory profile nor the stored document; and get_recommendations called
\* again with the same n and no mutation in between returns the same.
C16_QueriesArePure ==
    [][ /\ catalog' = catalog
        /\ result'.op \in {"recommend", "feed", "analyze"} =>
              (user_data' = user_data /\ user_file' = user_file)
        /\ ( /\ result.op = "recommend" /\ result'.op = "recommend"
             /\ result'.n = result.n ) =>
              result' = result ]_vars

\* a feed whose trending list orders the books otherwise than the catalog,
\* computed for a profile with a history and a stored document
C16_Witness ==
    /\ result.op = "feed" /\ result.status = "ok"
    /\ catalog = [books |-> <<BookBare, BookA, BookLow>>]
    /\ result.value.trending = <<BookA, BookBare, BookLow>>
    /\ Len(user_data.history) = 2
    /\ user_file.exists


====
